---- MODULE Spec2Model ----
(***************************************************************************)
(* Model of p1.py: the read loop that frames P1 telegrams from a smart     *)
(* meter, extracts a P1Data record from the body lines and writes it to    *)
(* the high-resolution and low-resolution InfluxDB buckets.                *)
(*                                                                         *)
(* A text line is a record                                                 *)
(*     [id |-> identifier, groups |-> parenthesised groups, rest |-> tail] *)
(* and a group is [num |-> digits, frac |-> digits after the dot,          *)
(* suffix |-> text up to the closing parenthesis].  "!AEB6" is the line    *)
(* with id "!" and one group whose num is <<10, 14, 11, 6>>.               *)
(* An optional value (Python None) is <<>>, a present value v is <<v>>.    *)
(***************************************************************************)
EXTENDS Integers, Sequences, FiniteSets, TLC

\* ------------------------------------------------------------- bounds
\* Body positions of a frame in which any line of the alphabet may arrive;
\* later positions receive only filler lines and trailers.
MaxVaried == 2
\* Trailers (completed telegrams) accepted in one run.
MaxTelegrams == 2
\* Overruns in one run.
MaxOverruns == 1
\* A frame grows beyond MaxVaried lines only while at most this many
\* high-resolution writes have been made.
LongFrameWrites == 0

\* ---------------------------------------------------- program constants
P1_MSG_LIMIT == 100

\* time.timezone and time.altzone of the process (Europe/Amsterdam).
timezone == 0 - 3600
altzone == 0 - 7200

None == <<>>
Some(v) == <<v>>

Group(num, frac, suffix) == [num |-> num, frac |-> frac, suffix |-> suffix]
Line(id, groups, rest) == [id |-> id, groups |-> groups, rest |-> rest]

\* ------------------------------------------------------------ regexes
\* \d+
IsDigits(s) == Len(s) >= 1 /\ \A i \in 1..Len(s) : s[i] \in 0..9

\* [A-F0-9]{4}
IsHex4(s) == Len(s) = 4 /\ \A i \in 1..4 : s[i] \in 0..15

\* (?P<timestamp>\d+)(?P<dst>[WS])
TimestampGroup(g) == IsDigits(g.num) /\ g.frac = <<>> /\ g.suffix \in {"W", "S"}

\* (\d+\.\d+)\*unit
DecimalGroup(g, unit) == IsDigits(g.num) /\ IsDigits(g.frac) /\ g.suffix = unit

regex_p1_header(line) == line.id = "/ISK5"

regex_p1_crc(line) ==
    /\ line.id = "!"
    /\ Len(line.groups) = 1
    /\ IsHex4(line.groups[1].num)
    /\ line.groups[1].frac = <<>>
    /\ line.groups[1].suffix = ""
    /\ line.rest = ""

regex_p1_timestamp(line) ==
    /\ line.id = "0-0:1.0.0"
    /\ Len(line.groups) = 1
    /\ TimestampGroup(line.groups[1])
    /\ line.rest = ""

OneDecimal(line, id, unit) ==
    /\ line.id = id
    /\ Len(line.groups) = 1
    /\ DecimalGroup(line.groups[1], unit)
    /\ line.rest = ""

regex_current_kwatt(line) == OneDecimal(line, "1-0:1.7.0", "*kW")
regex_tariff1_total(line) == OneDecimal(line, "1-0:1.8.1", "*kWh")
regex_tariff2_total(line) == OneDecimal(line, "1-0:1.8.2", "*kWh")
regex_l1_voltage(line) == OneDecimal(line, "1-0:32.7.0", "*V")

regex_gas_total(line) ==
    /\ line.id = "0-1:24.2.1"
    /\ Len(line.groups) = 2
    /\ TimestampGroup(line.groups[1])
    /\ DecimalGroup(line.groups[2], "*m3")
    /\ line.rest = ""

\* ------------------------------------------------- datetime.strptime
\* Each directive of "%y%m%d%H%M%S" takes two digits, or one where its
\* pattern allows it; the regular expression prefers two and backtracks.
\* Field k of 1..6 is y, m, d, H, M, S.
FieldOK(k, w, v) ==
    CASE k = 1 -> w = 2
      [] k = 2 -> IF w = 2 THEN v \in 1..12 ELSE v \in 1..9
      [] k = 3 -> IF w = 2 THEN v \in 1..31 ELSE v \in 1..9
      [] k = 4 -> IF w = 2 THEN v \in 0..23 ELSE TRUE
      [] k = 5 -> IF w = 2 THEN v \in 0..59 ELSE TRUE
      [] k = 6 -> IF w = 2 THEN v \in 0..61 ELSE TRUE

\* The first of two parse results that is a match.
Prefer(a, b) == IF a # None THEN a ELSE b

\* The value v put before the values of a match of the remaining fields.
Cons(v, rest) == IF rest = None THEN None ELSE Some(<<v>> \o rest[1])

\* The number that the w digits of s from position pos on spell.
Num(s, pos, w) == IF w = 2 THEN s[pos] * 10 + s[pos + 1] ELSE s[pos]

RECURSIVE ParseFields(_, _, _)
RECURSIVE TryWidth(_, _, _, _)
\* Field k taken as the w digits of s at pos, and the fields after it.
TryWidth(s, pos, k, w) ==
    IF pos + w - 1 <= Len(s) /\ FieldOK(k, w, Num(s, pos, w))
    THEN Cons(Num(s, pos, w), ParseFields(s, pos + w, k + 1))
    ELSE None

\* The field values the format matches in s from position pos on for the
\* fields k..6, as Some(<<values>>), or None when nothing matches.
ParseFields(s, pos, k) ==
    IF k = 7
    THEN IF pos = Len(s) + 1 THEN Some(<<>>) ELSE None
    ELSE Prefer(TryWidth(s, pos, k, 2), TryWidth(s, pos, k, 1))

IsLeap(y) == (y % 4 = 0 /\ y % 100 # 0) \/ y % 400 = 0

DaysInMonth(y, m) ==
    IF m = 2 THEN (IF IsLeap(y) THEN 29 ELSE 28)
    ELSE IF m \in {4, 6, 9, 11} THEN 30 ELSE 31

RECURSIVE DaysBeforeMonth(_, _)
DaysBeforeMonth(y, m) ==
    IF m = 1 THEN 0 ELSE DaysBeforeMonth(y, m - 1) + DaysInMonth(y, m - 1)

DaysBeforeYear(y) ==
    365 * (y - 1) + ((y - 1) \div 4) - ((y - 1) \div 100) + ((y - 1) \div 400)

\* A datetime, as the day number (0001-01-01 is day 1) and the second of
\* the day.
DateTime(y, m, d, H, M, S) ==
    [days |-> DaysBeforeYear(y) + DaysBeforeMonth(y, m) + d,
     secs |-> H * 3600 + M * 60 + S]

\* dt + datetime.timedelta(seconds=offset)
PlusSeconds(dt, offset) ==
    [days |-> dt.days + ((dt.secs + offset) \div 86400),
     secs |-> (dt.secs + offset) % 86400]

\* dt.second
Second(dt) == dt.secs % 60

\* a < b on datetimes
Earlier(a, b) == a.days < b.days \/ (a.days = b.days /\ a.secs < b.secs)

\* The year of a two-digit %y.
Year(yy) == IF yy <= 68 THEN 2000 + yy ELSE 1900 + yy

\* The datetime of the parsed fields v, or None when the day is past the
\* end of the month or the second is 60 or 61 (ValueError).
FieldsToDateTime(v) ==
    IF v[3] <= DaysInMonth(Year(v[1]), v[2]) /\ v[6] <= 59
    THEN Some(DateTime(Year(v[1]), v[2], v[3], v[4], v[5], v[6]))
    ELSE None

MatchToDateTime(f) == IF f = None THEN None ELSE FieldsToDateTime(f[1])

\* datetime.datetime.strptime(timestring, P1_TIME_FMT): Some(datetime), or
\* None when it raises ValueError.
strptime(timestring) == MatchToDateTime(ParseFields(timestring, 1, 1))

PlusOffset(local, offset) ==
    IF local = None THEN None ELSE Some(PlusSeconds(local[1], offset))

\* p1_localtime_to_utc with the offset chosen by the month of the date
\* (April to October is summer), not by dstchar.
p1_localtime_to_utc_by_month(timestring, dstchar) ==
    PlusOffset(strptime(timestring),
               IF Num(timestring, 3, 2) \in 4..10 THEN altzone ELSE timezone)

\* p1_localtime_to_utc: Some(datetime), or None when strptime raises.
p1_localtime_to_utc(timestring, dstchar) ==
    PlusOffset(strptime(timestring), IF dstchar = "W" THEN timezone ELSE altzone)

\* ------------------------------------------------------------- float
RECURSIVE DigitsToNat(_)
DigitsToNat(s) ==
    IF s = <<>> THEN 0 ELSE DigitsToNat(SubSeq(s, 1, Len(s) - 1)) * 10 + s[Len(s)]

RECURSIVE Normalise(_, _)
\* The decimal m / 10^e without trailing zeros in the fraction.
Normalise(m, e) ==
    IF e > 0 /\ m % 10 = 0 THEN Normalise(m \div 10, e - 1) ELSE [m |-> m, e |-> e]

\* float("num.frac"), as a decimal [m, e] of value m / 10^e.
float(g) == Normalise(DigitsToNat(g.num \o g.frac), Len(g.frac))

\* x * 1000
Times1000(x) == Normalise(x.m * 1000, x.e)

\* ------------------------------------------------------------- P1Data
P1Data ==
    [timestamp |-> None, watt |-> None, tariff1 |-> None, tariff2 |-> None,
     voltage |-> None, gas |-> None, gas_timestamp |-> None]

\* The timestamp group g of a matched line, converted.
GroupToUtc(g) == p1_localtime_to_utc(g.num, g.suffix)

\* The six tests of the loop body, each on the record the test before it
\* left.
SetTimestamp(p1, line) ==
    IF regex_p1_timestamp(line)
    THEN [p1 EXCEPT !.timestamp = GroupToUtc(line.groups[1])] ELSE p1

\* SetWatt with the value left in kilowatt.
SetWattKilo(p1, line) ==
    IF regex_current_kwatt(line)
    THEN [p1 EXCEPT !.watt = Some(float(line.groups[1]))] ELSE p1

SetWatt(p1, line) ==
    IF regex_current_kwatt(line)
    THEN [p1 EXCEPT !.watt = Some(Times1000(float(line.groups[1])))] ELSE p1

\* SetTariff1 with the value of the first matching line kept.
SetTariff1First(p1, line) ==
    IF regex_tariff1_total(line) /\ p1.tariff1 = None
    THEN [p1 EXCEPT !.tariff1 = Some(float(line.groups[1]))] ELSE p1

SetTariff1(p1, line) ==
    IF regex_tariff1_total(line)
    THEN [p1 EXCEPT !.tariff1 = Some(float(line.groups[1]))] ELSE p1

SetTariff2(p1, line) ==
    IF regex_tariff2_total(line)
    THEN [p1 EXCEPT !.tariff2 = Some(float(line.groups[1]))] ELSE p1

SetVoltage(p1, line) ==
    IF regex_l1_voltage(line)
    THEN [p1 EXCEPT !.voltage = Some(float(line.groups[1]))] ELSE p1

SetGas(p1, line) ==
    IF regex_gas_total(line)
    THEN [p1 EXCEPT !.gas_timestamp = GroupToUtc(line.groups[1]),
                    !.gas = Some(float(line.groups[2]))]
    ELSE p1

\* p1_localtime_to_utc raises ValueError on the line's timestamp.
TimestampRaises(line) ==
    regex_p1_timestamp(line) /\ GroupToUtc(line.groups[1]) = None

GasTimestampRaises(line) ==
    regex_gas_total(line) /\ GroupToUtc(line.groups[1]) = None

\* One of the six patterns matches the line.
MatchesSome(line) ==
    \/ regex_p1_timestamp(line)
    \/ regex_current_kwatt(line)
    \/ regex_tariff1_total(line)
    \/ regex_tariff2_total(line)
    \/ regex_l1_voltage(line)
    \/ regex_gas_total(line)

\* ExtractLine with ValueError raised for a line that no pattern matches.
ExtractLineStrict(p1, line) ==
    IF ~MatchesSome(line) \/ TimestampRaises(line) \/ GasTimestampRaises(line)
    THEN [exc |-> "ValueError", p1 |-> p1]
    ELSE [exc |-> "",
          p1 |-> SetGas(SetVoltage(SetTariff2(SetTariff1(SetWatt(
                     SetTimestamp(p1, line), line), line), line), line), line)]

\* One pass of the loop body.  exc is "ValueError" when a timestamp
\* conversion raises (the assignment it feeds does not happen and nothing
\* after it runs), "" otherwise.
ExtractLine(p1, line) ==
    IF TimestampRaises(line)
    THEN [exc |-> "ValueError", p1 |-> p1]
    ELSE IF GasTimestampRaises(line)
         THEN [exc |-> "ValueError",
               p1 |-> SetVoltage(SetTariff2(SetTariff1(SetWatt(p1, line), line),
                                            line), line)]
         ELSE [exc |-> "",
               p1 |-> SetGas(SetVoltage(SetTariff2(SetTariff1(SetWatt(
                          SetTimestamp(p1, line), line), line), line), line), line)]

RECURSIVE ExtractRange(_, _, _, _)
\* The for loop over lines[lo..hi], started with the record p1: the first
\* half of the range, then (unless that raised) the second half.
ExtractRange(p1, lines, lo, hi) ==
    IF lo > hi THEN [exc |-> "", p1 |-> p1]
    ELSE IF lo = hi THEN ExtractLine(p1, lines[lo])
    ELSE LET first == ExtractRange(p1, lines, lo, (lo + hi) \div 2)
         IN  IF first.exc # "" THEN first
             ELSE ExtractRange(first.p1, lines, ((lo + hi) \div 2) + 1, hi)

\* p1_data_from_lines(lines): [exc |-> "", p1 |-> the record returned], or
\* [exc |-> "ValueError", ...] when it raises.
p1_data_from_lines(lines) == ExtractRange(P1Data, lines, 1, Len(lines))

\* ------------------------------------------------------------- points
Point(measurement, reading, field, value, time) ==
    [measurement |-> measurement, reading |-> reading, field |-> field,
     value |-> value, time |-> time]

\* Points with the gas point at the time of the electricity points.
PointsOneTime(p1) ==
    << Point("electricity", "power", "watt", p1.watt, p1.timestamp),
       Point("electricity", "tariff1", "kwh", p1.tariff1, p1.timestamp),
       Point("electricity", "tariff2", "kwh", p1.tariff2, p1.timestamp),
       Point("electricity", "voltage", "volt", p1.voltage, p1.timestamp),
       Point("gas", "usage", "m3", p1.gas, p1.timestamp) >>

\* The tuple of points add_p1_to_influxdb builds.
Points(p1) ==
    << Point("electricity", "power", "watt", p1.watt, p1.timestamp),
       Point("electricity", "tariff1", "kwh", p1.tariff1, p1.timestamp),
       Point("electricity", "tariff2", "kwh", p1.tariff2, p1.timestamp),
       Point("electricity", "voltage", "volt", p1.voltage, p1.timestamp),
       Point("gas", "usage", "m3", p1.gas, p1.gas_timestamp) >>

\* LowResDue with the minute tested in place of the second.
LowResDueMinute(p1) == (p1.timestamp[1].secs \div 60) % 60 = 0

\* if p1.timestamp.second == 0 (p1.timestamp is a datetime here).
LowResDue(p1) == Second(p1.timestamp[1]) = 0

\* ----------------------------------------------------------- checksum
\* The CRC16 of the Checksum Validator (polynomial 0xA001, initial value 0,
\* low bit first), over one byte per line of the frame.
RECURSIVE SumSeq(_)
SumSeq(s) == IF s = <<>> THEN 0 ELSE s[1] + SumSeq(Tail(s))

RECURSIVE GroupSum(_)
GroupSum(gs) ==
    IF gs = <<>> THEN 0
    ELSE SumSeq(gs[1].num) + 3 * SumSeq(gs[1].frac) + GroupSum(Tail(gs))

IdByte(id) ==
    CASE id = "/ISK5" -> 47
      [] id = "!" -> 33
      [] id = "0-0:1.0.0" -> 100
      [] id = "1-0:1.7.0" -> 117
      [] id = "1-0:1.8.1" -> 181
      [] id = "1-0:1.8.2" -> 182
      [] id = "1-0:32.7.0" -> 27
      [] id = "0-1:24.2.1" -> 221
      [] OTHER -> 63

LineByte(line) == (IdByte(line.id) + GroupSum(line.groups)) % 256

\* Bit k (of value 2^k = p) of x flipped.
FlipBit(x, p) == IF (x \div p) % 2 = 1 THEN x - p ELSE x + p

RECURSIVE Xor8(_, _, _)
\* Exclusive or of the low 8 bits of a and b, from the bit of value p on.
Xor8(a, b, p) ==
    IF p = 256 THEN 0
    ELSE (IF (a \div p) % 2 # (b \div p) % 2 THEN p ELSE 0) + Xor8(a, b, 2 * p)

RECURSIVE CrcShift(_, _)
\* n rounds of: shift right, and exclusive or with 0xA001 when a 1 fell out.
CrcShift(c, n) ==
    IF n = 0 THEN c
    ELSE CrcShift(IF c % 2 = 1
                  THEN FlipBit(FlipBit((c \div 2) + 32768, 8192), 1)
                  ELSE c \div 2,
                  n - 1)

CrcByte(c, b) == CrcShift((c \div 256) * 256 + Xor8(c % 256, b, 1), 8)

RECURSIVE CrcRange(_, _, _, _)
\* The checksum c continued over the bytes of lines[lo..hi], in order.
CrcRange(c, lines, lo, hi) ==
    IF lo > hi THEN c
    ELSE IF lo = hi THEN CrcByte(c, LineByte(lines[lo]))
    ELSE LET first == CrcRange(c, lines, lo, (lo + hi) \div 2)
         IN  IF first >= 0
             THEN CrcRange(first, lines, ((lo + hi) \div 2) + 1, hi)
             ELSE 0

\* The checksum of the frame: header line, body lines, and the "!" that
\* starts the trailer.
Checksum(header, body) ==
    CrcByte(CrcRange(CrcByte(0, LineByte(header)), body, 1, Len(body)), 33)

\* The four hexadecimal digits of a 16-bit value, most significant first.
Hex4(c) == << c \div 4096, (c \div 256) % 16, (c \div 16) % 16, c % 16 >>

\* ------------------------------------------------------- input lines
\* /ISK5\2M550E-1013
HeaderLine == Line("/ISK5", <<>>, "\\2M550E-1013")

TimestampLine(digits, dst) == Line("0-0:1.0.0", <<Group(digits, <<>>, dst)>>, "")

\* 0-0:1.0.0(210214195440W)
T40 == TimestampLine(<<2, 1, 0, 2, 1, 4, 1, 9, 5, 4, 4, 0>>, "W")
\* 0-0:1.0.0(210214195400W), a minute boundary 40 seconds before T40
T00 == TimestampLine(<<2, 1, 0, 2, 1, 4, 1, 9, 5, 4, 0, 0>>, "W")
\* 0-0:1.0.0(210230195440W), the 30th of February
TBad == TimestampLine(<<2, 1, 0, 2, 3, 0, 1, 9, 5, 4, 4, 0>>, "W")

\* 0-1:24.2.1(210214195003W)(00026.800*m3)
GasLine ==
    Line("0-1:24.2.1",
         << Group(<<2, 1, 0, 2, 1, 4, 1, 9, 5, 0, 0, 3>>, <<>>, "W"),
            Group(<<0, 0, 0, 2, 6>>, <<8, 0, 0>>, "*m3") >>,
         "")

\* 1-0:1.7.0(00.234*kW)
PowerLine == Line("1-0:1.7.0", <<Group(<<0, 0>>, <<2, 3, 4>>, "*kW")>>, "")

DecimalLine(id, num, frac, unit) == Line(id, <<Group(num, frac, unit)>>, "")

\* 1-0:1.7.0(01.500*kW)
PowerLine2 == DecimalLine("1-0:1.7.0", <<0, 1>>, <<5, 0, 0>>, "*kW")
\* 1-0:1.7.0(00.234*kWh), the power identifier with the unit of a tariff:
\* no pattern matches it
PowerLineKwh == DecimalLine("1-0:1.7.0", <<0, 0>>, <<2, 3, 4>>, "*kWh")
\* 1-0:1.8.1(000032.289*kWh)
Tariff1Line == DecimalLine("1-0:1.8.1", <<0, 0, 0, 0, 3, 2>>, <<2, 8, 9>>, "*kWh")
\* 1-0:1.8.1(000032.290*kWh)
Tariff1Line2 == DecimalLine("1-0:1.8.1", <<0, 0, 0, 0, 3, 2>>, <<2, 9, 0>>, "*kWh")
\* 1-0:1.8.2(000016.064*kWh)
Tariff2Line == DecimalLine("1-0:1.8.2", <<0, 0, 0, 0, 1, 6>>, <<0, 6, 4>>, "*kWh")
\* 1-0:32.7.0(235.2*V)
VoltageLine == DecimalLine("1-0:32.7.0", <<2, 3, 5>>, <<2>>, "*V")
\* 1-0:32.7.0(229.0*V)
VoltageLine2 == DecimalLine("1-0:32.7.0", <<2, 2, 9>>, <<0>>, "*V")

\* 0-0:1.0.0(210214195440S), the time of T40 with the summer flag
T40S == TimestampLine(<<2, 1, 0, 2, 1, 4, 1, 9, 5, 4, 4, 0>>, "S")
\* 0-0:1.0.0(210714195400W), a day in July with the winter flag
TJulyW == TimestampLine(<<2, 1, 0, 7, 1, 4, 1, 9, 5, 4, 0, 0>>, "W")
\* 0-0:1.0.0(210714195400S)
TJulyS == TimestampLine(<<2, 1, 0, 7, 1, 4, 1, 9, 5, 4, 0, 0>>, "S")
\* 0-0:1.0.0(210101003000W), half an hour into the year
TNewYear == TimestampLine(<<2, 1, 0, 1, 0, 1, 0, 0, 3, 0, 0, 0>>, "W")

\* 0-1:24.2.1(210714195003S)(00027.015*m3)
GasLine2 ==
    Line("0-1:24.2.1",
         << Group(<<2, 1, 0, 7, 1, 4, 1, 9, 5, 0, 0, 3>>, <<>>, "S"),
            Group(<<0, 0, 0, 2, 7>>, <<0, 1, 5>>, "*m3") >>,
         "")

\* 0-0:96.14.0(0002), a line no pattern matches
FillerLine == Line("0-0:96.14.0", <<Group(<<0, 0, 0, 2>>, <<>>, "")>>, "")

TrailerLine(hex) == Line("!", <<Group(hex, <<>>, "")>>, "")

\* The value of `line` before the first readline().
NoLine == Line("", <<>>, "")

\* The lines that arrive in the first MaxVaried body positions of a frame.
VariedLines == {HeaderLine, T40, T00, TBad, GasLine, FillerLine}

\* The lines that arrive while the loop waits for a header; the trailer is
\* !AEB6.
OuterLines == {HeaderLine, T40, FillerLine, TrailerLine(<<10, 14, 11, 6>>)}

\* The body that the sample lines in the comments of the patterns make:
\*     0-0:1.0.0(210214195440W)
\*     1-0:1.7.0(00.234*kW)
\*     1-0:1.8.1(000032.289*kWh)
\*     1-0:1.8.2(000016.064*kWh)
\*     1-0:32.7.0(235.2*V)
\*     0-1:24.2.1(210214195003W)(00026.800*m3)
SampleBody == <<T40, PowerLine, Tariff1Line, Tariff2Line, VoltageLine, GasLine>>

\* The lines the bodies handed to p1_data_from_lines are made of.
BodyLines ==
    {T40, T40S, TJulyW, TJulyS, TNewYear, TBad, PowerLine, PowerLine2,
     PowerLineKwh, Tariff1Line, Tariff1Line2, Tariff2Line, VoltageLine,
     VoltageLine2, GasLine, GasLine2, FillerLine, HeaderLine}

\* Greatest length of a body made of any lines of BodyLines.
MaxBody == 2
\* Lines of BodyLines put into SampleBody, at any positions.
MaxInserted == 1

RECURSIVE SeqsUpTo(_, _)
\* The sequences over S of length at most n.
SeqsUpTo(S, n) ==
    IF n = 0 THEN {<<>>}
    ELSE {<<>>} \cup {<<x>> \o t : x \in S, t \in SeqsUpTo(S, n - 1)}

\* The sequence b with l put after its first i elements.
InsertAt(b, i, l) == SubSeq(b, 1, i) \o <<l>> \o SubSeq(b, i + 1, Len(b))

InsertInto(bodies) ==
    UNION {{InsertAt(b, i, l) : i \in 0..Len(b), l \in BodyLines} : b \in bodies}

RECURSIVE Inserted(_)
\* SampleBody with at most n lines put into it.
Inserted(n) ==
    IF n = 0 THEN {SampleBody} ELSE {SampleBody} \cup InsertInto(Inserted(n - 1))

\* The bodies p1_data_from_lines is applied to.
Bodies == SeqsUpTo(BodyLines, MaxBody) \cup Inserted(MaxInserted)

\* ------------------------------------------------------------- state
VARIABLES
    pc,              \* where the main loop is
    line,            \* the line read last
    p1_msg,          \* the body lines of the frame
    p1,              \* Some(record p1_data_from_lines returned last), or None
    highres_bucket,  \* the point tuples written to influxdb_highres_bucket
    lowres_bucket,   \* the point tuples written to influxdb_lowres_bucket
    exc,             \* the exception that ended the process, "" while it runs
    frames,          \* trailers matched so far
    overruns,        \* "OOOP!" messages printed so far
    written          \* "Written new measurement" messages printed so far

\* crc = match.group("crc"): the digits of the trailer in `line`.  The
\* program never reads crc; it is defined while the telegram of that trailer
\* is extracted and written.
crc == line.groups[1].num

vars ==
    << pc, line, p1_msg, p1, highres_bucket, lowres_bucket, exc, frames,
       overruns, written >>

Init ==
    /\ pc = "outer"
    /\ line = NoLine
    /\ p1_msg = <<>>
    /\ p1 = None
    /\ highres_bucket = <<>>
    /\ lowres_bucket = <<>>
    /\ exc = ""
    /\ frames = 0
    /\ overruns = 0
    /\ written = 0

\* The trailer lines that may close the frame: the one that carries the
\* frame's checksum, and one that is off by one.
Trailers(c) == {TrailerLine(Hex4(c)), TrailerLine(Hex4((c + 1) % 65536))}

\* The lines that may arrive as the next line of the frame.  A frame is
\* short (a trailer within its first MaxVaried + 1 lines), or of the
\* greatest length a trailer is still read at, or it overruns.
InnerLines ==
    (IF Len(p1_msg) < MaxVaried THEN VariedLines ELSE {})
    \cup (IF /\ Len(p1_msg) >= MaxVaried
             /\ Len(highres_bucket) <= LongFrameWrites
             /\ (Len(p1_msg) < P1_MSG_LIMIT \/ overruns < MaxOverruns)
          THEN {FillerLine} ELSE {})
    \cup (IF Len(p1_msg) <= MaxVaried \/ Len(p1_msg) = P1_MSG_LIMIT
          THEN Trailers(Checksum(HeaderLine, p1_msg)) ELSE {})

\* An uncaught exception ends the process: its variables are gone, what it
\* wrote and printed stays.
Raise(e) ==
    /\ pc' = "crashed"
    /\ exc' = e
    /\ line' = NoLine
    /\ p1_msg' = <<>>
    /\ p1' = None

\* ReadOuter with a line that is no header kept in the buffer.
ReadOuterKeeps ==
    /\ pc = "outer"
    /\ frames < MaxTelegrams
    /\ \E l \in OuterLines :
        /\ line' = l
        /\ IF regex_p1_header(l)
           THEN pc' = "inner" /\ p1_msg' = <<>>
           ELSE p1_msg' = <<l>> /\ UNCHANGED pc
    /\ UNCHANGED <<p1, highres_bucket, lowres_bucket, exc, frames, overruns,
                   written>>

\* The outer loop: readline(), and the header test.
ReadOuter ==
    /\ pc = "outer"
    /\ frames < MaxTelegrams
    /\ \E l \in OuterLines :
        /\ line' = l
        /\ IF regex_p1_header(l)
           THEN pc' = "inner" /\ p1_msg' = <<>>
           ELSE UNCHANGED <<pc, p1_msg>>
    /\ UNCHANGED <<p1, highres_bucket, lowres_bucket, exc, frames, overruns,
                   written>>

\* LoopCondition with < in place of <=.
LoopConditionStrict(n) == n < P1_MSG_LIMIT

\* LoopCondition with one more line let in.
LoopConditionLoose(n) == n <= P1_MSG_LIMIT + 1

\* while len(p1_msg) <= P1_MSG_LIMIT, on a buffer of n lines.
LoopCondition(n) == n <= P1_MSG_LIMIT

\* ReadInner with the line put at the front of the buffer.
ReadInnerFront ==
    /\ pc = "inner"
    /\ \E l \in InnerLines :
        /\ line' = l
        /\ IF regex_p1_crc(l)
           THEN /\ frames' = frames + 1
                /\ pc' = "extract"
                /\ UNCHANGED <<p1_msg, overruns>>
           ELSE /\ p1_msg' = <<l>> \o p1_msg
                /\ IF LoopCondition(Len(p1_msg) + 1)
                   THEN pc' = "inner" /\ UNCHANGED overruns
                   ELSE pc' = "outer" /\ overruns' = overruns + 1
                /\ UNCHANGED frames
    /\ UNCHANGED <<p1, highres_bucket, lowres_bucket, exc, written>>

\* The inner loop: readline(), the trailer test, the append, and the loop
\* condition with its else clause.
ReadInner ==
    /\ pc = "inner"
    /\ \E l \in InnerLines :
        /\ line' = l
        /\ IF regex_p1_crc(l)
           THEN /\ frames' = frames + 1
                /\ pc' = "extract"
                /\ UNCHANGED <<p1_msg, overruns>>
           ELSE /\ p1_msg' = Append(p1_msg, l)
                /\ IF LoopCondition(Len(p1_msg) + 1)
                   THEN pc' = "inner" /\ UNCHANGED overruns
                   ELSE pc' = "outer" /\ overruns' = overruns + 1
                /\ UNCHANGED frames
    /\ UNCHANGED <<p1, highres_bucket, lowres_bucket, exc, written>>

\* readline() raises: the serial port failed.
TransportFailure ==
    /\ pc \in {"outer", "inner"}
    /\ frames < MaxTelegrams
    /\ Raise("SerialException")
    /\ UNCHANGED <<highres_bucket, lowres_bucket, frames, overruns, written>>

\* Extract with the record of the telegram before as the record the loop
\* over the lines starts with.
ExtractCarry ==
    /\ pc = "extract"
    /\ IF ExtractRange(IF p1 = None THEN P1Data ELSE p1[1],
                       p1_msg, 1, Len(p1_msg)).exc = ""
       THEN /\ p1' = Some(ExtractRange(IF p1 = None THEN P1Data ELSE p1[1],
                                       p1_msg, 1, Len(p1_msg)).p1)
            /\ pc' = "highres"
            /\ UNCHANGED <<line, p1_msg, exc>>
       ELSE Raise("ValueError")
    /\ UNCHANGED <<highres_bucket, lowres_bucket, frames, overruns, written>>

\* p1 = p1_data_from_lines(p1_msg)
Extract ==
    /\ pc = "extract"
    /\ IF p1_data_from_lines(p1_msg).exc = ""
       THEN /\ p1' = Some(p1_data_from_lines(p1_msg).p1)
            /\ pc' = "highres"
            /\ UNCHANGED <<line, p1_msg, exc>>
       ELSE Raise(p1_data_from_lines(p1_msg).exc)
    /\ UNCHANGED <<highres_bucket, lowres_bucket, frames, overruns, written>>

\* WriteHighRes with the points put before the earlier writes.
WriteHighResFirst ==
    /\ pc = "highres"
    /\ highres_bucket' = <<Points(p1[1])>> \o highres_bucket
    /\ pc' = "lowres"
    /\ UNCHANGED <<line, p1_msg, p1, lowres_bucket, exc, frames, overruns,
                   written>>

\* add_p1_to_influxdb, up to the write to the high-resolution bucket.
WriteHighRes ==
    /\ pc = "highres"
    /\ highres_bucket' = Append(highres_bucket, Points(p1[1]))
    /\ pc' = "lowres"
    /\ UNCHANGED <<line, p1_msg, p1, lowres_bucket, exc, frames, overruns,
                   written>>

\* p1.timestamp.second of a timestamp that is None.
LowResRaises ==
    /\ pc = "lowres"
    /\ p1[1].timestamp = None
    /\ Raise("AttributeError")
    /\ UNCHANGED <<highres_bucket, lowres_bucket, frames, overruns, written>>

\* WriteLowRes made before the write to the high-resolution bucket.
WriteLowResEarly ==
    /\ pc = "highres"
    /\ p1[1].timestamp # None
    /\ LowResDue(p1[1])
    /\ Len(lowres_bucket) <= Len(highres_bucket)
    /\ lowres_bucket' = Append(lowres_bucket, Points(p1[1]))
    /\ UNCHANGED <<pc, line, p1_msg, p1, highres_bucket, exc, frames, overruns,
                   written>>

\* The write to the low-resolution bucket.
WriteLowRes ==
    /\ pc = "lowres"
    /\ p1[1].timestamp # None
    /\ LowResDue(p1[1])
    /\ lowres_bucket' = Append(lowres_bucket, Points(p1[1]))
    /\ pc' = "flush"
    /\ UNCHANGED <<line, p1_msg, p1, highres_bucket, exc, frames, overruns,
                   written>>

\* No write to the low-resolution bucket.
SkipLowRes ==
    /\ pc = "lowres"
    /\ p1[1].timestamp # None
    /\ ~LowResDue(p1[1])
    /\ pc' = "flush"
    /\ UNCHANGED <<line, p1_msg, p1, highres_bucket, lowres_bucket, exc,
                   frames, overruns, written>>

\* db.flush(), the print, and the break out of the inner loop.
Flush ==
    /\ pc = "flush"
    /\ written' = written + 1
    /\ pc' = "outer"
    /\ UNCHANGED <<line, p1_msg, p1, highres_bucket, lowres_bucket, exc,
                   frames, overruns>>

Next ==
    \/ ReadOuter
    \/ ReadInner
    \/ TransportFailure
    \/ Extract
    \/ WriteHighRes
    \/ LowResRaises
    \/ WriteLowRes
    \/ SkipLowRes
    \/ Flush

Spec == Init /\ [][Next]_vars

\* ------------------------------------- p1_data_from_lines on its own
\* The loop at the trailer !AEB6 of its first frame, with any of the bodies
\* in the buffer.
ExtractInit ==
    /\ pc = "extract"
    /\ line = TrailerLine(<<10, 14, 11, 6>>)
    /\ p1_msg \in Bodies
    /\ p1 = None
    /\ highres_bucket = <<>>
    /\ lowres_bucket = <<>>
    /\ exc = ""
    /\ frames = 1
    /\ overruns = 0
    /\ written = 0

ExtractNext == Extract

ExtractSpec == ExtractInit /\ [][ExtractNext]_vars

\* ------------------------------------------------------------ claims
\* The telegram of the trailer in `line` is being extracted or written.
Routing == pc \in {"extract", "highres", "lowres", "flush"}

Last(s) == s[Len(s)]

\* The points of a write carry a timestamp.
HasTime(points) == points[1].time # None

\* The points of a write carry a timestamp on a minute boundary.
MinuteBoundary(points) == HasTime(points) /\ Second(points[1].time[1]) = 0

\* C1: a telegram is extracted and written only when the four hex digits of
\* its trailer are the checksum of the frame; on a mismatch it is dropped.
C1_MismatchDropped == Routing => crc = Hex4(Checksum(HeaderLine, p1_msg))

\* The Reading with a timestamp whose high-resolution write is made and
\* whose routing is not finished: 1 or 0.
InFlight == IF pc \in {"lowres", "flush"} /\ p1[1].timestamp # None THEN 1 ELSE 0

\* The high-resolution writes that the low-resolution decision was taken for.
Decided ==
    IF pc = "lowres"
    THEN SubSeq(highres_bucket, 1, Len(highres_bucket) - 1)
    ELSE highres_bucket

\* C2: every routed Reading with a timestamp has exactly one write in the
\* high-resolution bucket, and the low-resolution bucket holds the same
\* points for exactly the Readings whose timestamp has second 0, in order.
C2_DualRate ==
    /\ Len(SelectSeq(highres_bucket, HasTime)) = written + InFlight
    /\ lowres_bucket = SelectSeq(Decided, MinuteBoundary)

\* Two Readings are routed, one on a minute boundary and one not.
C2_Witness == pc = "outer" /\ written = 2 /\ Len(lowres_bucket) = 1

\* C3: the line read with P1_MSG_LIMIT lines in the buffer, when it is no
\* trailer, is the 101st line of the frame and gives exactly one overrun, no
\* write, and the outer loop; an overrun happens in no other step; and from
\* the outer loop the next line starts a frame with an empty buffer exactly
\* when it is a header.
C3_Overrun ==
    [][ /\ (/\ pc = "inner"
            /\ Len(p1_msg) = P1_MSG_LIMIT
            /\ p1_msg' # p1_msg
            /\ pc' # "crashed")
           => /\ overruns' = overruns + 1
              /\ pc' = "outer"
              /\ Len(p1_msg') = P1_MSG_LIMIT + 1
              /\ UNCHANGED <<highres_bucket, lowres_bucket>>
        /\ overruns' # overruns
           => /\ pc = "inner"
              /\ Len(p1_msg) = P1_MSG_LIMIT
              /\ overruns' = overruns + 1
              /\ \A i \in 1..Len(p1_msg') : ~regex_p1_crc(p1_msg'[i])
        /\ (pc = "outer" /\ pc' = "inner")
           => (regex_p1_header(line') /\ p1_msg' = <<>>)
        /\ (pc = "outer" /\ line' # line /\ regex_p1_header(line'))
           => (pc' = "inner" /\ p1_msg' = <<>>)
      ]_vars

\* After an overrun a header has started a frame with an empty buffer.
C3_Witness == overruns = 1 /\ pc = "inner" /\ p1_msg = <<>>

\* C4: a header line that arrives while a frame is collected starts a new
\* frame; it is never appended to the body buffer.
C4_HeaderRestarts == \A i \in 1..Len(p1_msg) : ~regex_p1_header(p1_msg[i])

\* C5: a Reading with no timestamp is not routed: it is written to neither
\* bucket.
C5_NoTimestampNoWrite ==
    /\ \A i \in 1..Len(highres_bucket) : HasTime(highres_bucket[i])
    /\ \A i \in 1..Len(lowres_bucket) : HasTime(lowres_bucket[i])

\* The conversions of the line succeed.
Converts(l) == ~TimestampRaises(l) /\ ~GasTimestampRaises(l)

\* C6: a line whose value cannot be converted leaves its field absent, and
\* extraction returns the Reading of the other lines.
C6_BadFieldSkipped ==
    /\ exc # "ValueError"
    /\ pc = "highres"
       => p1 = Some(p1_data_from_lines(SelectSeq(p1_msg, Converts)).p1)

\* C7: only a failure of the line source ends the run.
C7_OnlyTransportHalts == pc = "crashed" => exc = "SerialException"

\* C8: the timestamps of the Readings written are non-decreasing.
C8_Monotonic ==
    \A i, j \in 1..Len(highres_bucket) :
        (i < j /\ HasTime(highres_bucket[i]) /\ HasTime(highres_bucket[j]))
        => ~Earlier(highres_bucket[j][1].time[1], highres_bucket[i][1].time[1])

\* The telegram of the last trailer has no high-resolution write yet.
Pending == pc \in {"extract", "highres"} \/ exc = "ValueError"

\* C9: the k-th high-resolution write is made for the k-th completed
\* telegram and carries the Reading of its lines; no line is read while a
\* telegram is extracted and written; at most one telegram is in flight.
C9_Order ==
    /\ [](/\ Len(highres_bucket) = frames - (IF Pending THEN 1 ELSE 0)
          /\ frames - written \in {0, 1})
    /\ [][ /\ highres_bucket' # highres_bucket
              => highres_bucket' =
                     Append(highres_bucket, Points(p1_data_from_lines(p1_msg).p1))
           /\ (Routing /\ pc' # "crashed") => UNCHANGED <<line, p1_msg, frames>>
         ]_vars

\* Two telegrams with different Readings have been written.
C9_Witness ==
    /\ pc = "lowres"
    /\ Len(highres_bucket) = 2
    /\ highres_bucket[1] # highres_bucket[2]

\* The electricity points at the Reading's timestamp, the gas point at its
\* gas_timestamp.
PointTimes(points, reading) ==
    /\ \A k \in 1..4 : points[k].time = reading.timestamp
    /\ points[5].time = reading.gas_timestamp

\* C10 as stated: every point that carries a value, the gas point included,
\* has the Reading's timestamp as its time.
C10_AllAtTimestamp ==
    \A i \in 1..Len(highres_bucket) :
        HasTime(highres_bucket[i])
        => \A k \in 1..5 :
               highres_bucket[i][k].value # None
               => highres_bucket[i][k].time = highres_bucket[i][1].time

\* C10, amended: the four electricity points of a write carry the timestamp
\* of the telegram's Reading, and the gas point carries its gas_timestamp.
C10_PointTimes ==
    /\ pc \in {"lowres", "flush"}
       => PointTimes(Last(highres_bucket), p1_data_from_lines(p1_msg).p1)
    /\ (pc = "flush" /\ MinuteBoundary(Last(highres_bucket)))
       => PointTimes(Last(lowres_bucket), p1_data_from_lines(p1_msg).p1)
    /\ \A i \in 1..Len(highres_bucket) :
           \A k \in 2..4 : highres_bucket[i][k].time = highres_bucket[i][1].time

\* A Reading with a timestamp and a different gas timestamp is written.
C10_Witness ==
    /\ pc = "flush"
    /\ p1[1].timestamp # None
    /\ p1[1].gas_timestamp # None
    /\ p1[1].gas_timestamp # p1[1].timestamp

\* -------------------------------------------- claims on the extraction
\* The index of the last line that passes Test, 0 when none does.
LastIndex(lines, Test(_)) ==
    IF \A i \in 1..Len(lines) : ~Test(lines[i]) THEN 0
    ELSE CHOOSE i \in 1..Len(lines) :
             Test(lines[i]) /\ \A j \in (i + 1)..Len(lines) : ~Test(lines[j])

\* The seconds from datetime a to datetime b, which are at most days apart.
SecondsBetween(a, b) == (b.days - a.days) * 86400 + (b.secs - a.secs)

\* The offset of the seasonal flag: standard time for W, daylight saving
\* time for S.
FlagOffset(flag) == IF flag = "W" THEN timezone ELSE altzone

\* utc is the local time that the digits of group g spell, plus the offset
\* of the flag of g.
UtcOfGroup(g, utc) ==
    /\ utc # None
    /\ strptime(g.num) # None
    /\ SecondsBetween(strptime(g.num)[1], utc[1]) = FlagOffset(g.suffix)

\* 210214195440 is 2021-02-14T19:54:40, the 737835th day of the calendar.
SampleLocalTime(g) ==
    g.num = <<2, 1, 0, 2, 1, 4, 1, 9, 5, 4, 4, 0>>
    => strptime(g.num) = Some([days |-> 737835, secs |-> 19 * 3600 + 54 * 60 + 40])

\* C11: the timestamp of the Reading is the local time of the (last)
\* timestamp line plus the offset its flag names, time.timezone for W and
\* time.altzone for S, whatever the date; and so is the gas timestamp for
\* the timestamp group of the gas line.
C11_FlagOffset ==
    pc = "highres"
    => /\ LastIndex(p1_msg, regex_p1_timestamp) > 0
          => /\ UtcOfGroup(p1_msg[LastIndex(p1_msg, regex_p1_timestamp)].groups[1],
                           p1[1].timestamp)
             /\ SampleLocalTime(
                    p1_msg[LastIndex(p1_msg, regex_p1_timestamp)].groups[1])
       /\ LastIndex(p1_msg, regex_gas_total) > 0
          => UtcOfGroup(p1_msg[LastIndex(p1_msg, regex_gas_total)].groups[1],
                        p1[1].gas_timestamp)

\* A Reading is extracted whose timestamp line has a day in July with flag
\* W and whose gas line has flag S.
C11_Witness ==
    /\ pc = "highres"
    /\ LastIndex(p1_msg, regex_p1_timestamp) > 0
    /\ p1_msg[LastIndex(p1_msg, regex_p1_timestamp)] = TJulyW
    /\ LastIndex(p1_msg, regex_gas_total) > 0
    /\ p1_msg[LastIndex(p1_msg, regex_gas_total)] = GasLine2
    /\ p1[1].timestamp # None
    /\ p1[1].gas_timestamp # None

RECURSIVE Pow10(_)
Pow10(n) == IF n = 0 THEN 1 ELSE 10 * Pow10(n - 1)

\* The decimal x in thousandths (x has at most three decimals here).
Thousandths(x) ==
    IF x.e <= 3 THEN x.m * Pow10(3 - x.e) ELSE x.m \div Pow10(x.e - 3)

\* Digit i of the fraction, 0 past its end.
FracDigit(frac, i) == IF i <= Len(frac) THEN frac[i] ELSE 0

\* The number that the digits of group g spell, in thousandths.
Captured(g) ==
    DigitsToNat(g.num) * 1000
    + FracDigit(g.frac, 1) * 100 + FracDigit(g.frac, 2) * 10 + FracDigit(g.frac, 3)

\* The field value is present and is scale times the number captured in
\* group k of the last line that passes Test, if there is such a line.
FieldIsCaptured(value, Test(_), k, scale) ==
    LastIndex(p1_msg, Test) > 0
    => /\ value # None
       /\ Thousandths(value[1])
              = scale * Captured(p1_msg[LastIndex(p1_msg, Test)].groups[k])

\* The Reading of the sample telegram: 234.0 W, 32.289 and 16.064 kWh,
\* 235.2 V, 26.8 m3, and 19:54:40 and 19:50:03 of 2021-02-14 plus the
\* standard-time offset.
IsSampleReading(r) ==
    /\ r.watt # None /\ Thousandths(r.watt[1]) = 234000
    /\ r.tariff1 # None /\ Thousandths(r.tariff1[1]) = 32289
    /\ r.tariff2 # None /\ Thousandths(r.tariff2[1]) = 16064
    /\ r.voltage # None /\ Thousandths(r.voltage[1]) = 235200
    /\ r.gas # None /\ Thousandths(r.gas[1]) = 26800
    /\ r.timestamp = Some([days |-> 737835, secs |-> 71680 + timezone])
    /\ r.gas_timestamp = Some([days |-> 737835, secs |-> 71403 + timezone])

\* C12: every numeric field of the Reading is the decimal captured on its
\* identifier line, the power times 1000 and the others as they are (in
\* thousandths); the sample telegram gives watt 234.0, tariff1 32.289,
\* tariff2 16.064, voltage 235.2, gas 26.8 and the two converted instants.
C12_SampleReading ==
    pc = "highres"
    => /\ FieldIsCaptured(p1[1].watt, regex_current_kwatt, 1, 1000)
       /\ FieldIsCaptured(p1[1].tariff1, regex_tariff1_total, 1, 1)
       /\ FieldIsCaptured(p1[1].tariff2, regex_tariff2_total, 1, 1)
       /\ FieldIsCaptured(p1[1].voltage, regex_l1_voltage, 1, 1)
       /\ FieldIsCaptured(p1[1].gas, regex_gas_total, 2, 1)
       /\ p1_msg = SampleBody => IsSampleReading(p1[1])

\* The sample telegram is extracted.
C12_Witness == pc = "highres" /\ p1_msg = SampleBody /\ p1 # None

\* ------------------------------------------------ claims on the frames
\* C13: a header read in the outer loop starts a frame with an empty
\* buffer; every line read in the frame that is no trailer is appended to
\* the buffer, in arrival order; at a trailer the buffer is handed as it is
\* to p1_data_from_lines, whose record is the one routed; the buffer does
\* not change while the telegram is routed, and the end of the routing is
\* the outer loop, where the next frame starts with an empty buffer.
C13_TelegramIsFrame ==
    [][ /\ (pc = "outer" /\ pc' = "inner") => p1_msg' = <<>>
        /\ (pc = "inner" /\ pc' # "crashed" /\ regex_p1_crc(line'))
           => (pc' = "extract" /\ p1_msg' = p1_msg)
        /\ (pc = "inner" /\ pc' # "crashed" /\ ~regex_p1_crc(line'))
           => p1_msg' = Append(p1_msg, line')
        /\ (pc = "extract" /\ pc' # "crashed")
           => (p1' = Some(p1_data_from_lines(p1_msg).p1) /\ pc' = "highres")
        /\ (Routing /\ pc' # "crashed") => p1_msg' = p1_msg
        /\ pc' = "outer" => pc \in {"outer", "inner", "flush"}
        /\ pc = "flush" => pc' = "outer"
      ]_vars

\* A telegram of a timestamp line and a gas line is written, and the next
\* header has started a frame with an empty buffer.
C13_Witness ==
    /\ pc = "inner"
    /\ p1_msg = <<>>
    /\ written = 1
    /\ highres_bucket[1][1].time # None
    /\ highres_bucket[1][5].time # None

\* C14: a line read in the outer loop that is no header changes nothing
\* but `line`: it is not put in the buffer, starts no frame, completes no
\* telegram, is not extracted and writes nothing; also when it has the shape
\* of a body line or of a trailer, before the first header or after an
\* overrun.
C14_Discarded ==
    [][ (pc = "outer" /\ pc' # "crashed" /\ ~regex_p1_header(line'))
        => UNCHANGED <<pc, p1_msg, p1, highres_bucket, lowres_bucket, frames,
                       overruns, written>>
      ]_vars

\* After an overrun a trailer was read in the outer loop.
C14_Witness ==
    /\ pc = "outer"
    /\ overruns = 1
    /\ regex_p1_crc(line)
    /\ Len(p1_msg) = P1_MSG_LIMIT + 1
    /\ frames = 0

\* No line of the buffer passes Test.
NoLineOf(Test(_)) == \A i \in 1..Len(p1_msg) : ~Test(p1_msg[i])

\* The fields of record r whose identifier line is not in the buffer are
\* absent.
OwnLinesOnly(r) ==
    /\ NoLineOf(regex_p1_timestamp) => r.timestamp = None
    /\ NoLineOf(regex_current_kwatt) => r.watt = None
    /\ NoLineOf(regex_tariff1_total) => r.tariff1 = None
    /\ NoLineOf(regex_tariff2_total) => r.tariff2 = None
    /\ NoLineOf(regex_l1_voltage) => r.voltage = None
    /\ NoLineOf(regex_gas_total) => (r.gas = None /\ r.gas_timestamp = None)

\* The values and times of the points are those of record r.
PointsOf(points, r) ==
    /\ points[1].value = r.watt /\ points[1].time = r.timestamp
    /\ points[2].value = r.tariff1
    /\ points[3].value = r.tariff2
    /\ points[4].value = r.voltage
    /\ points[5].value = r.gas /\ points[5].time = r.gas_timestamp

\* C15: the Reading routed, and the points written for it, have no value
\* and no time for an identifier of which the telegram's buffer holds no
\* line, whatever the telegrams and the overrun frames before it held.
C15_OwnLines ==
    /\ pc \in {"highres", "lowres", "flush"} => OwnLinesOnly(p1[1])
    /\ pc \in {"lowres", "flush"} => PointsOf(Last(highres_bucket), p1[1])

\* After an overrun and a telegram with a gas line, a telegram without one
\* is written.
C15_Witness ==
    /\ pc = "flush"
    /\ overruns = 1
    /\ frames = 2
    /\ NoLineOf(regex_gas_total)
    /\ highres_bucket[1][5].value # None
    /\ highres_bucket[2][5].value = None

\* The lines of the buffer that some pattern matches.
MatchedLines == SelectSeq(p1_msg, MatchesSome)

\* C16: p1_data_from_lines returns for a body what it returns for the body
\* without the lines that no pattern matches, and raises for the one
\* exactly when it raises for the other; on a body of unmatched lines only
\* it returns the empty record.
C16_UnmatchedIgnored ==
    /\ pc = "extract"
       => /\ p1_data_from_lines(p1_msg).exc = p1_data_from_lines(MatchedLines).exc
          /\ MatchedLines = <<>> => p1_data_from_lines(p1_msg).exc = ""
    /\ pc = "highres"
       => /\ p1 = Some(p1_data_from_lines(MatchedLines).p1)
          /\ MatchedLines = <<>> => p1 = Some(P1Data)

\* A body with a line that no pattern matches between lines that set
\* fields is extracted.
C16_Witness ==
    /\ pc = "highres"
    /\ Len(MatchedLines) >= 6
    /\ Len(MatchedLines) < Len(p1_msg)
    /\ MatchesSome(p1_msg[1])
    /\ MatchesSome(Last(p1_msg))
    /\ p1[1].voltage # None

\* C17: the buffer never holds more than P1_MSG_LIMIT + 1 lines; a line of
\* the frame is read, and a telegram is extracted and written, only with at
\* most P1_MSG_LIMIT lines in the buffer; a trailer read with P1_MSG_LIMIT
\* lines in the buffer completes the telegram of these lines, and a trailer
\* read with P1_MSG_LIMIT + 1 lines in it completes nothing.
C17_BufferBound ==
    /\ [](/\ Len(p1_msg) <= P1_MSG_LIMIT + 1
          /\ (pc = "inner" \/ Routing) => Len(p1_msg) <= P1_MSG_LIMIT
          /\ Len(p1_msg) = P1_MSG_LIMIT + 1 => pc = "outer")
    /\ [][ /\ (/\ pc = "inner"
               /\ Len(p1_msg) = P1_MSG_LIMIT
               /\ pc' # "crashed"
               /\ regex_p1_crc(line'))
              => (pc' = "extract" /\ frames' = frames + 1 /\ p1_msg' = p1_msg)
           /\ (/\ Len(p1_msg) = P1_MSG_LIMIT + 1
               /\ pc' # "crashed"
               /\ regex_p1_crc(line'))
              => UNCHANGED <<pc, p1_msg, p1, frames, highres_bucket,
                             lowres_bucket>>
         ]_vars

\* After an overrun, with the trailer that came too late read in the outer
\* loop, a trailer read after P1_MSG_LIMIT lines of the next frame has
\* completed a telegram.
C17_Witness ==
    /\ pc = "extract"
    /\ Len(p1_msg) = P1_MSG_LIMIT
    /\ overruns = 1

\* The number of the six patterns that match the line.
MatchCount(l) ==
    Cardinality({k \in 1..6 :
        CASE k = 1 -> regex_p1_timestamp(l)
          [] k = 2 -> regex_current_kwatt(l)
          [] k = 3 -> regex_tariff1_total(l)
          [] k = 4 -> regex_tariff2_total(l)
          [] k = 5 -> regex_l1_voltage(l)
          [] k = 6 -> regex_gas_total(l)})

\* The last line of the buffer that passes Test; there is one.
LastLine(Test(_)) == p1_msg[LastIndex(p1_msg, Test)]

\* The decimal of group k of the last line that passes Test, None when no
\* line does.
LastDecimal(Test(_), k) ==
    IF NoLineOf(Test) THEN None ELSE Some(float(LastLine(Test).groups[k]))

\* The converted timestamp of the last line that passes Test, None when no
\* line does.
LastUtc(Test(_)) ==
    IF NoLineOf(Test) THEN None ELSE GroupToUtc(LastLine(Test).groups[1])

\* The watt value of the last power line, None when there is none.
LastWatt ==
    IF NoLineOf(regex_current_kwatt) THEN None
    ELSE Some(Times1000(float(LastLine(regex_current_kwatt).groups[1])))

\* C18: no body line is matched by two of the six patterns, and every field
\* of the Reading has the value of the last line of its identifier in the
\* body, whatever lines come before, between and after.
C18_LastWins ==
    /\ \A i \in 1..Len(p1_msg) : MatchCount(p1_msg[i]) <= 1
    /\ pc = "highres"
       => /\ p1[1].timestamp = LastUtc(regex_p1_timestamp)
          /\ p1[1].watt = LastWatt
          /\ p1[1].tariff1 = LastDecimal(regex_tariff1_total, 1)
          /\ p1[1].tariff2 = LastDecimal(regex_tariff2_total, 1)
          /\ p1[1].voltage = LastDecimal(regex_l1_voltage, 1)
          /\ p1[1].gas = LastDecimal(regex_gas_total, 2)
          /\ p1[1].gas_timestamp = LastUtc(regex_gas_total)

\* The sample body with a second tariff 1 line of another value after the
\* first is extracted.
C18_Witness ==
    /\ pc = "highres"
    /\ Len(p1_msg) = 7
    /\ Len(SelectSeq(p1_msg, regex_tariff1_total)) = 2
    /\ SelectSeq(p1_msg, regex_tariff1_total)[1] = Tariff1Line
    /\ SelectSeq(p1_msg, regex_tariff1_total)[2] = Tariff1Line2
    /\ p1[1].tariff1 = Some(float(Tariff1Line2.groups[1]))
    /\ p1[1].tariff2 # None

\* ------------------------------------------------ claims on the writes
\* C19: the low-resolution bucket never holds more writes than the
\* high-resolution bucket, and every write it holds is in the
\* high-resolution bucket too; a write to the low-resolution bucket is made
\* when the last write to the high-resolution bucket is the one of the same
\* telegram and carries the same points, and no step writes to both.
C19_HighBeforeLow ==
    /\ [](/\ Len(lowres_bucket) <= Len(highres_bucket)
          /\ \A i \in 1..Len(lowres_bucket) :
                 \E j \in i..Len(highres_bucket) :
                     highres_bucket[j] = lowres_bucket[i])
    /\ [][ /\ lowres_bucket' # lowres_bucket
              => /\ UNCHANGED highres_bucket
                 /\ Len(highres_bucket) = frames
                 /\ Last(highres_bucket) = Points(p1[1])
                 /\ lowres_bucket' = Append(lowres_bucket, Last(highres_bucket))
           /\ highres_bucket' # highres_bucket
              => /\ UNCHANGED lowres_bucket
                 /\ Len(highres_bucket') = frames
         ]_vars

\* The second telegram is written to both buckets, the first was written
\* to the high-resolution bucket only.
C19_Witness ==
    /\ pc = "flush"
    /\ Len(highres_bucket) = 2
    /\ Len(lowres_bucket) = 1
    /\ lowres_bucket[1] = highres_bucket[2]
    /\ lowres_bucket[1] # highres_bucket[1]

====
